---- MODULE Spec2Model ----
(***************************************************************************)
(* A model of the aho-view2 image viewer: Pic (one image file and its      *)
(* decode/score state, pic.py), PicAxiv (an ordered collection of Pic with *)
(* a cursor, picaxiv.py) and AhoView (the open collections, the active     *)
(* index and the predictive loading pass updatemc, main.py).               *)
(*                                                                         *)
(* Scores are Python floats.  The model keeps them as integers counted in  *)
(* ticks of 1/Res: the score 1.0 is Res ticks, so that values strictly     *)
(* between 0 and 1 exist when Res > 1.                                     *)
(***************************************************************************)
EXTENDS Integers, Sequences, FiniteSets, TLC

VARIABLES
    pic,        \* SpecPic: one Pic object
    axiv,       \* SpecAxiv: one PicAxiv object
    allaxiv,    \* AhoView.allaxiv, the sequence of open PicAxiv objects
    axiv_idx,   \* AhoView.axiv_idx (0-based, as in the source)
    label_size, \* the size of AhoView.qimglabel, as a size id
    disk,       \* the file system: the state of every image file
    fs_events,  \* number of file-system changes made behind the program's back
    last        \* the last operation: its name, input, result and pre-state

vars == <<pic, axiv, allaxiv, axiv_idx, label_size, disk, fs_events, last>>

----------------------------------------------------------------------------
(* Bounds of the model *)

\* ticks per unit of score
Res == 2
\* largest score (in units) the entry-level specification lets score_add reach
MaxScore == 3
\* file-system changes behind the program's back, per behaviour
MaxFsEvents == 1
\* largest offset, in either direction, handed to one PicAxiv
MaxOffset == 11
\* archives open at once in the viewer driven by its event handlers
MaxAxiv == 2
\* archives open at once when open_axiv, close_axiv and change_axiv are called
\* directly, and the largest offset handed to them
MaxNavAxiv == 3
MaxNavOffset == 4
\* SpecWrap: the longest collection, the most open collections and the
\* largest offset (in absolute value)
MaxWrapLen == 4
MaxWrapAxiv == 3
MaxWrapOffset == 9

(* Program constants *)

\* main.py:164, the factor of the normalisation
NormScale == 30
\* main.py:183, the heat added to each neighbourhood entry
Heat == 2
\* main.py:177 and 179, the far offsets of the neighbourhood
FarOffset == 10

----------------------------------------------------------------------------
(* The file system the program runs on.                                    *)
(*                                                                         *)
(* The state of an image file:                                             *)
(*   "ok"   exists, is a regular file and QPixmap decodes it               *)
(*   "bad"  exists, is a regular file, QPixmap(name).isNull()              *)
(*   "gone" does not exist, or is not a regular file                       *)
DiskStates == {"ok", "bad", "gone"}

\* picaxiv.py:29
pic_filters == {".jpg", ".jpeg", ".png", ".bmp"}

\* str.lower() leaving upper-case letters as they are
Lower_keep(ext) == ext

\* str.lower() on the extensions that occur in the listings below
Lower(ext) ==
    CASE ext = ".JPG" -> ".jpg"
      [] ext = ".Png" -> ".png"
      [] ext = ".TXT" -> ".txt"
      [] OTHER -> ext

F(ext, d) == [ext |-> ext, disk |-> d]

\* The paths handed to open_axiv, and what os.path.exists / isdir / isfile /
\* listdir answer for them: kind "none" does not exist, "dir" is a directory
\* with the listing ls (extension and initial state of each file, in listing
\* order), "file" is a regular file (ls holds that one file).
Paths == {"missing", "notes", "junk", "one", "small", "big"}

FS(path) ==
    CASE path = "missing" -> [kind |-> "none", ls |-> <<>>]
      [] path = "notes" ->
            [kind |-> "dir", ls |-> <<F(".txt", "bad"), F(".TXT", "bad")>>]
      [] path = "junk" -> [kind |-> "file", ls |-> <<F(".txt", "bad")>>]
      [] path = "one" -> [kind |-> "file", ls |-> <<F(".png", "ok")>>]
      [] path = "small" ->
            [kind |-> "dir",
             ls |-> <<F(".png", "bad"), F(".JPG", "ok"), F(".bmp", "ok"),
                      F(".txt", "bad")>>]
      [] path = "big" ->
            [kind |-> "dir",
             ls |-> <<F(".jpg", "ok"), F(".jpeg", "bad"), F(".txt", "bad"),
                      F(".Png", "ok"), F(".bmp", "ok"), F(".png", "ok"),
                      F(".jpg", "ok")>>]

\* a file is named by its path and its place in the listing
Files == UNION {{<<path, i>> : i \in 1..Len(FS(path).ls)} : path \in Paths}

InitialDisk == [f \in Files |-> FS(f[1]).ls[f[2]].disk]

\* the label sizes a window can take; widths and heights pairwise different
LabelSizes == {1, 2}

----------------------------------------------------------------------------
(* Pic (pic.py).  The operations are functions of the object p and of the  *)
(* file system dk; each gives the object after the call (pic), the value   *)
(* returned (ret) and whether the call reached the file system (io).       *)

\* Pic.__init__.  scaled = 0 is the null QPixmap, s > 0 a pixmap scaled for
\* the label size s.  original is not kept: it is a non-null pixmap exactly
\* when is_loaded (load sets both, unload clears both, a failed decode leaves
\* a null pixmap).
Pic_init(file_name) ==
    [name |-> file_name, score |-> 0, is_checked |-> FALSE,
     is_showable |-> FALSE, is_loaded |-> FALSE, scaled |-> 0]

\* Pic.load without the early return of lines 60-62 (a checked, not showable
\* entry is decoded again)
Pic_load_retry(p, dk) ==
    IF p.is_loaded THEN [pic |-> p, ret |-> TRUE, io |-> FALSE]
    ELSE IF dk[p.name] = "ok"
    THEN [pic |-> [p EXCEPT !.is_checked = TRUE, !.is_showable = TRUE,
                            !.is_loaded = TRUE],
          ret |-> TRUE, io |-> TRUE]
    ELSE [pic |-> [p EXCEPT !.is_checked = TRUE, !.is_showable = FALSE],
          ret |-> FALSE, io |-> TRUE]

\* Pic.load
Pic_load(p, dk) ==
    IF p.is_loaded THEN [pic |-> p, ret |-> TRUE, io |-> FALSE]
    ELSE IF p.is_checked /\ ~p.is_showable
    THEN [pic |-> p, ret |-> FALSE, io |-> FALSE]
    ELSE IF dk[p.name] = "ok"
    THEN [pic |-> [p EXCEPT !.is_checked = TRUE, !.is_showable = TRUE,
                            !.is_loaded = TRUE],
          ret |-> TRUE, io |-> TRUE]
    ELSE [pic |-> [p EXCEPT !.is_checked = TRUE, !.is_showable = FALSE],
          ret |-> FALSE, io |-> TRUE]

\* Pic.showable without the test of line 47 and without the record of an
\* earlier failure: every call goes to the file
Pic_showable_decode(p, dk) ==
    LET q == Pic_load_retry(p, dk)
    IN  [pic |-> q.pic, ret |-> q.pic.is_showable, io |-> q.io]

\* Pic.showable
Pic_showable(p, dk) ==
    LET q == IF ~p.is_checked THEN Pic_load(p, dk)
             ELSE [pic |-> p, ret |-> TRUE, io |-> FALSE]
    IN  [pic |-> q.pic, ret |-> q.pic.is_showable, io |-> q.io]

\* Pic.unload
Pic_unload(p) ==
    [pic |-> IF p.is_loaded THEN [p EXCEPT !.is_loaded = FALSE, !.scaled = 0]
             ELSE p,
     ret |-> TRUE, io |-> FALSE]

\* Pic.score_set with "< 0" for the "<= 0" of line 113
Pic_score_set_loose(p, n, dk) ==
    IF n < 0
    THEN [pic |-> Pic_unload([p EXCEPT !.score = 0]).pic, ret |-> 0, io |-> FALSE]
    ELSE IF n >= Res
    THEN LET l == Pic_load([p EXCEPT !.score = n], dk)
         IN  [pic |-> l.pic, ret |-> n, io |-> l.io]
    ELSE [pic |-> [p EXCEPT !.score = n], ret |-> n, io |-> FALSE]

\* Pic.score_set without the unload of line 115
Pic_score_set_keep(p, n, dk) ==
    IF n <= 0 THEN [pic |-> [p EXCEPT !.score = 0], ret |-> 0, io |-> FALSE]
    ELSE IF n >= Res
    THEN LET l == Pic_load([p EXCEPT !.score = n], dk)
         IN  [pic |-> l.pic, ret |-> n, io |-> l.io]
    ELSE [pic |-> [p EXCEPT !.score = n], ret |-> n, io |-> FALSE]

\* Pic.score_set with "> 1" for the ">= 1" of line 116
Pic_score_set_late(p, n, dk) ==
    IF n <= 0
    THEN [pic |-> Pic_unload([p EXCEPT !.score = 0]).pic, ret |-> 0, io |-> FALSE]
    ELSE IF n > Res
    THEN LET l == Pic_load([p EXCEPT !.score = n], dk)
         IN  [pic |-> l.pic, ret |-> n, io |-> l.io]
    ELSE [pic |-> [p EXCEPT !.score = n], ret |-> n, io |-> FALSE]

\* Pic.score_set; n and the result are in ticks
Pic_score_set(p, n, dk) ==
    IF n <= 0
    THEN [pic |-> Pic_unload([p EXCEPT !.score = 0]).pic, ret |-> 0, io |-> FALSE]
    ELSE IF n >= Res
    THEN LET l == Pic_load([p EXCEPT !.score = n], dk)
         IN  [pic |-> l.pic, ret |-> n, io |-> l.io]
    ELSE [pic |-> [p EXCEPT !.score = n], ret |-> n, io |-> FALSE]

\* Pic.score_add
Pic_score_add(p, n, dk) == Pic_score_set(p, p.score + n, dk)

\* Pic.delete_file without the unload of lines 127-128
Pic_delete_file_resident(p, dk, rm_ok) ==
    IF dk[p.name] # "gone" /\ rm_ok
    THEN [pic |-> [p EXCEPT !.is_showable = FALSE], ret |-> TRUE, io |-> TRUE,
          disk |-> [dk EXCEPT ![p.name] = "gone"]]
    ELSE [pic |-> p, ret |-> FALSE, io |-> TRUE, disk |-> dk]

\* Pic.delete_file with line 132 moved before the test of line 129: the
\* entry is marked not showable whether the file is removed or not
Pic_delete_file_hasty(p, dk, rm_ok) ==
    LET q == IF p.is_loaded THEN Pic_unload(p).pic ELSE p
        r == [q EXCEPT !.is_showable = FALSE]
    IN  IF dk[q.name] # "gone" /\ rm_ok
        THEN [pic |-> r, ret |-> TRUE, io |-> TRUE,
              disk |-> [dk EXCEPT ![q.name] = "gone"]]
        ELSE [pic |-> r, ret |-> FALSE, io |-> TRUE, disk |-> dk]

\* Pic.delete_file.  rm_ok: os.remove succeeds (FALSE: it raises OSError).
\* disk is the file system after the call.
Pic_delete_file(p, dk, rm_ok) ==
    LET q == IF p.is_loaded THEN Pic_unload(p).pic ELSE p
    IN  IF dk[q.name] # "gone"
        THEN IF rm_ok
             THEN [pic |-> [q EXCEPT !.is_showable = FALSE], ret |-> TRUE,
                   io |-> TRUE, disk |-> [dk EXCEPT ![q.name] = "gone"]]
             ELSE [pic |-> q, ret |-> FALSE, io |-> TRUE, disk |-> dk]
        ELSE [pic |-> q, ret |-> FALSE, io |-> TRUE, disk |-> dk]

\* Pic.scale_image in mode 0, the only mode AhoView uses (main.py:33).
\* raised: line 163 divides by the width of a null original (ZeroDivisionError)
\* when the implicit load of line 157 has failed.  The label sizes have
\* pairwise different widths and heights, so the comparison of lines 163-168
\* finds the scaled pixmap up to date exactly when it was made for this size.
Pic_scale_image(p, size, dk) ==
    LET s == Pic_showable(p, dk)
    IN  IF ~s.ret
        THEN [pic |-> s.pic, ret |-> FALSE, io |-> s.io, raised |-> FALSE]
        ELSE LET l == IF ~s.pic.is_loaded THEN Pic_load(s.pic, dk)
                      ELSE [pic |-> s.pic, ret |-> TRUE, io |-> FALSE]
                 io == s.io \/ l.io
             IN  IF ~l.pic.is_loaded
                 THEN [pic |-> l.pic, ret |-> FALSE, io |-> io, raised |-> TRUE]
                 ELSE IF l.pic.scaled = size
                 THEN [pic |-> l.pic, ret |-> FALSE, io |-> io, raised |-> FALSE]
                 ELSE [pic |-> [l.pic EXCEPT !.scaled = size], ret |-> TRUE,
                       io |-> io, raised |-> FALSE]

----------------------------------------------------------------------------
(* SpecPic: the operations of one Pic, called in any order, while the file *)
(* behind it may change.                                                   *)

\* the values handed to score_set and score_add, in ticks
ScoreInputs == {-Res, -1, 0, 1, Res, Res + 1, 2 * Res}

\* the objects the entry-level specification starts from
PicFiles == {<<"one", 1>>, <<"small", 1>>}

\* what the last call was: ret is a boolean result, val a numeric one, pre
\* the object and disk the state of its file before the call; again tells
\* that it is a showable() call made right after a showable() call, and
\* before is then what that call returned
LastPic(op, arg, ret, val, io, raised) ==
    LET again == op = "showable" /\ last.op = "showable"
    IN  [op |-> op, arg |-> arg, ret |-> ret, val |-> val, io |-> io,
         raised |-> raised, pre |-> pic, disk |-> disk[pic.name],
         again |-> again, before |-> again /\ last.ret]

PicStep(p, l) ==
    /\ pic' = p
    /\ last' = l
    /\ UNCHANGED <<axiv, allaxiv, axiv_idx, label_size, fs_events>>

InitPic ==
    /\ pic \in {Pic_init(f) : f \in PicFiles}
    /\ axiv = <<>>
    /\ allaxiv = <<>>
    /\ axiv_idx = 0
    /\ label_size = 1
    /\ disk = InitialDisk
    /\ fs_events = 0
    /\ last = [op |-> "init", arg |-> 0, ret |-> FALSE, val |-> 0, io |-> FALSE,
               raised |-> FALSE, pre |-> pic, disk |-> disk[pic.name],
               again |-> FALSE, before |-> FALSE]

ProbeShowable ==
    LET r == Pic_showable(pic, disk)
    IN  /\ PicStep(r.pic, LastPic("showable", 0, r.ret, 0, r.io, FALSE))
        /\ UNCHANGED disk

Load ==
    LET r == Pic_load(pic, disk)
    IN  /\ PicStep(r.pic, LastPic("load", 0, r.ret, 0, r.io, FALSE))
        /\ UNCHANGED disk

Unload ==
    LET r == Pic_unload(pic)
    IN  /\ PicStep(r.pic, LastPic("unload", 0, r.ret, 0, r.io, FALSE))
        /\ UNCHANGED disk

ScoreSet ==
    \E n \in ScoreInputs :
        LET r == Pic_score_set(pic, n, disk)
        IN  /\ PicStep(r.pic, LastPic("score_set", n, TRUE, r.ret, r.io, FALSE))
            /\ UNCHANGED disk

ScoreAdd ==
    \E n \in ScoreInputs :
        /\ pic.score + n <= MaxScore * Res
        /\ LET r == Pic_score_add(pic, n, disk)
           IN  /\ PicStep(r.pic,
                          LastPic("score_add", n, TRUE, r.ret, r.io, FALSE))
               /\ UNCHANGED disk

DeleteFile ==
    \E rm_ok \in BOOLEAN :
        LET r == Pic_delete_file(pic, disk, rm_ok)
        IN  /\ PicStep(r.pic, LastPic("delete_file", 0, r.ret, 0, r.io, FALSE))
            /\ disk' = r.disk

ScaleImage ==
    \E size \in LabelSizes :
        LET r == Pic_scale_image(pic, size, disk)
        IN  /\ PicStep(r.pic,
                       LastPic("scale_image", size, r.ret, 0, r.io, r.raised))
            /\ UNCHANGED disk

\* the file behind the entry is removed, replaced or restored from outside
PicDiskChange ==
    /\ fs_events < MaxFsEvents
    /\ \E d \in DiskStates \ {disk[pic.name]} :
           disk' = [disk EXCEPT ![pic.name] = d]
    /\ fs_events' = fs_events + 1
    /\ UNCHANGED <<pic, axiv, allaxiv, axiv_idx, label_size, last>>

NextPic ==
    \/ ProbeShowable
    \/ Load
    \/ Unload
    \/ ScoreSet
    \/ ScoreAdd
    \/ DeleteFile
    \/ ScaleImage
    \/ PicDiskChange

SpecPic == InitPic /\ [][NextPic]_vars

----------------------------------------------------------------------------
(* Properties of one Pic, checked under SpecPic *)

Sticky(p) == p.is_checked /\ ~p.is_showable

SameFlags(p, q) ==
    /\ p.is_checked = q.is_checked
    /\ p.is_showable = q.is_showable
    /\ p.is_loaded = q.is_loaded

\* C2 as stated: in every reachable state an entry whose score is 0 is not
\* loaded.
C2_ZeroScoreNotLoaded == pic.score = 0 => ~pic.is_loaded

\* C2 as amended: right after score_set or score_add has stored the score 0
\* the entry is not loaded (probe_showable, load and render_for_display load
\* an entry without looking at its score).
C2_ZeroScoreSetNotLoaded ==
    (last.op \in {"score_set", "score_add"} /\ pic.score = 0) => ~pic.is_loaded

C2_Witness ==
    /\ last.op \in {"score_set", "score_add"}
    /\ last.pre.is_loaded
    /\ last.pre.score > 0
    /\ pic.score = 0

\* C3: in every reachable state of an entry, loaded implies checked and
\* showable, with decode and delete succeeding or failing at will.
C3_LoadedIsShowable == pic.is_loaded => (pic.is_checked /\ pic.is_showable)

C3_Witness ==
    /\ last.op = "delete_file"
    /\ last.pre.is_loaded
    /\ last.ret
    /\ ~pic.is_showable

\* C4: score_set(x) with x <= 0 returns 0 and leaves score = 0 and the entry
\* not loaded, whatever the entry's state was; the stored score is never
\* negative.
C4_ScoreFloor ==
    /\ pic.score >= 0
    /\ (last.op = "score_set" /\ last.arg <= 0) =>
           (last.val = 0 /\ pic.score = 0 /\ ~pic.is_loaded)
    /\ (last.op = "score_add" /\ last.pre.score + last.arg <= 0) =>
           (last.val = 0 /\ pic.score = 0 /\ ~pic.is_loaded)

C4_Witness ==
    /\ last.op = "score_set"
    /\ last.arg < 0
    /\ last.pre.is_loaded
    /\ last.pre.score > 0
    /\ ~pic.is_loaded

\* C5: score_set(x) with x >= 1 stores x; it leaves the entry loaded when the
\* file exists and decodes (and the entry is not already known as not
\* showable), and not loaded when it was not loaded and the decode fails or
\* the entry is already checked and not showable.  With 0 < x < 1 it stores
\* x and changes none of loaded, checked and showable.
C5_ScoreSetTrigger ==
    last.op = "score_set" =>
        /\ last.arg >= Res =>
            /\ pic.score = last.arg
            /\ last.val = last.arg
            /\ (last.disk = "ok" /\ ~Sticky(last.pre)) => pic.is_loaded
            /\ (~last.pre.is_loaded /\ (last.disk # "ok" \/ Sticky(last.pre)))
                   => ~pic.is_loaded
        /\ (0 < last.arg /\ last.arg < Res) =>
            /\ pic.score = last.arg
            /\ last.val = last.arg
            /\ SameFlags(pic, last.pre)

C5_Witness ==
    /\ last.op = "score_set"
    /\ last.arg = Res
    /\ ~last.pre.is_loaded
    /\ pic.is_loaded
    /\ pic.score = Res

\* C6: not showable is sticky: from a state where the entry is checked and
\* not showable no operation makes it showable or loaded, and a load in that
\* state returns false without touching the file system.
C6_StickyNotShowable ==
    [][Sticky(pic) =>
           /\ Sticky(pic')
           /\ ~pic'.is_loaded
           /\ (last' # last /\ last'.op = "load") => (~last'.ret /\ ~last'.io)
      ]_vars

C6_Witness ==
    /\ last.op = "load"
    /\ Sticky(last.pre)
    /\ last.disk = "ok"
    /\ disk[pic.name] = "ok"
    /\ Sticky(pic)

\* C17: showable() called again right after showable(), whatever has
\* happened to the file in between, returns what the call before returned,
\* does not go to the file (no decode attempt) and leaves the entry as it
\* is; the call on a not yet checked entry leaves it checked, so the file is
\* decoded at most once over any number of calls.
C17_ProbeOnce ==
    /\ last.again => (last.ret = last.before /\ ~last.io /\ pic = last.pre)
    /\ last.op = "showable" =>
           (pic.is_checked /\ (last.pre.is_checked => ~last.io))

C17_Witness ==
    /\ last.again
    /\ ~last.ret
    /\ disk[pic.name] = "ok"
    /\ last.disk = "ok"

\* C18 as stated: when delete_file fails (file missing or not a regular file,
\* or os.remove raises OSError) it returns False and is_loaded, is_checked,
\* is_showable and score are what they were before the call.
C18_FailedDeleteKeepsState ==
    (last.op = "delete_file" /\ ~last.ret) =>
        (SameFlags(pic, last.pre) /\ pic.score = last.pre.score)

\* C18 as amended: when delete_file fails it returns False, is_checked,
\* is_showable and score are what they were before the call, and the
\* entry is not loaded: an entry that was loaded has been unloaded before
\* the removal is tried.
C18_FailedDeleteUnloads ==
    (last.op = "delete_file" /\ ~last.ret) =>
        /\ pic.is_checked = last.pre.is_checked
        /\ pic.is_showable = last.pre.is_showable
        /\ pic.score = last.pre.score
        /\ ~pic.is_loaded

C18_Witness ==
    /\ last.op = "delete_file"
    /\ ~last.ret
    /\ last.pre.is_loaded
    /\ last.disk = "ok"
    /\ pic.is_showable
    /\ pic.score > 0

\* C22: scale_image never scales an entry that is not loaded: when the entry
\* is recorded as showable but is not loaded and the reload fails (the file
\* is gone or no longer decodes), scale_image returns False without raising
\* and leaves scaled as it was.
C22_NoScaleUnloaded ==
    last.op = "scale_image" =>
        /\ last.ret => pic.is_loaded
        /\ (/\ last.pre.is_checked
            /\ last.pre.is_showable
            /\ ~last.pre.is_loaded
            /\ last.disk # "ok") =>
               (~last.ret /\ ~last.raised /\ pic.scaled = last.pre.scaled)

----------------------------------------------------------------------------
(* PicAxiv (picaxiv.py).  pic_idx is 0-based as in the source; the entry   *)
(* at index i is axiv[i + 1].  id tells two live PicAxiv objects apart.    *)

\* the places of a listing whose extension passes the filter of line 33
DirList(ls) ==
    SelectSeq([i \in 1..Len(ls) |-> i],
              LAMBDA i : Lower(ls[i].ext) \in pic_filters)

\* PicAxiv.__init__
PicAxiv_init(id, file_name) ==
    LET e == FS(file_name)
        dir_list == DirList(e.ls)
        new == [id |-> id, name |-> file_name, is_checked |-> FALSE,
                is_showable |-> FALSE, axiv |-> <<>>, pic_idx |-> 0]
    IN  IF e.kind # "none"
        THEN IF e.kind = "dir"
             THEN IF dir_list = <<>>
                  THEN [new EXCEPT !.is_checked = TRUE, !.is_showable = FALSE]
                  ELSE [new EXCEPT !.axiv =
                            [k \in 1..Len(dir_list) |->
                                Pic_init(<<file_name, dir_list[k]>>)]]
             ELSE IF e.kind = "file"
             THEN [new EXCEPT !.axiv = <<Pic_init(<<file_name, 1>>)>>]
             ELSE new
        ELSE [new EXCEPT !.is_checked = TRUE, !.is_showable = FALSE]

\* lines 68-71 wrapping to len(self.axiv) for len(self.axiv) - 1
RECURSIVE PicAxiv_back_long(_, _, _)
PicAxiv_back_long(new_idx, n, k) ==
    IF k = 0 THEN new_idx
    ELSE PicAxiv_back_long(IF new_idx - 1 < 0 THEN n ELSE new_idx - 1, n, k - 1)

\* lines 68-71: k steps back, from index 0 to the last index
RECURSIVE PicAxiv_back(_, _, _)
PicAxiv_back(new_idx, n, k) ==
    IF k = 0 THEN new_idx
    ELSE PicAxiv_back(IF new_idx - 1 < 0 THEN n - 1 ELSE new_idx - 1, n, k - 1)

\* lines 73-76 without the wrap: a step past the last index stays on it
RECURSIVE PicAxiv_forth_stop(_, _, _)
PicAxiv_forth_stop(new_idx, n, k) ==
    IF k = 0 THEN new_idx
    ELSE PicAxiv_forth_stop(IF new_idx + 1 >= n THEN n - 1 ELSE new_idx + 1,
                            n, k - 1)

\* lines 73-76: k steps forward, from the last index to 0
RECURSIVE PicAxiv_forth(_, _, _)
PicAxiv_forth(new_idx, n, k) ==
    IF k = 0 THEN new_idx
    ELSE PicAxiv_forth(IF new_idx + 1 >= n THEN 0 ELSE new_idx + 1, n, k - 1)

\* PicAxiv.offset_idx
PicAxiv_offset_idx(a, offset) ==
    IF a.axiv = <<>> THEN 0
    ELSE IF offset < 0 THEN PicAxiv_back(a.pic_idx, Len(a.axiv), -offset)
    ELSE IF offset > 0 THEN PicAxiv_forth(a.pic_idx, Len(a.axiv), offset)
    ELSE a.pic_idx

\* lines 89-98: the scan of PicAxiv.showable from the entry at place i
RECURSIVE PicAxiv_scan(_, _, _)
PicAxiv_scan(a, i, dk) ==
    IF i > Len(a.axiv)
    THEN [obj |-> [a EXCEPT !.is_showable = FALSE, !.is_checked = TRUE],
          ret |-> FALSE]
    ELSE LET r == Pic_showable(a.axiv[i], dk)
             b == [a EXCEPT !.axiv[i] = r.pic]
         IN  IF r.ret
             THEN [obj |-> [b EXCEPT !.is_showable = TRUE, !.is_checked = TRUE,
                                     !.pic_idx = i - 1],
                   ret |-> TRUE]
             ELSE PicAxiv_scan(b, i + 1, dk)

\* PicAxiv.showable without the cache of lines 86-87: every call scans
PicAxiv_showable_rescan(a, dk) == PicAxiv_scan(a, 1, dk)

\* PicAxiv.showable
PicAxiv_showable(a, dk) ==
    IF a.is_checked THEN [obj |-> a, ret |-> a.is_showable]
    ELSE PicAxiv_scan(a, 1, dk)

\* PicAxiv.load
PicAxiv_load(a, offset, dk) ==
    IF a.axiv = <<>> THEN [obj |-> a, ret |-> FALSE]
    ELSE LET i == PicAxiv_offset_idx(a, offset) + 1
             r == Pic_load(a.axiv[i], dk)
         IN  [obj |-> [a EXCEPT !.axiv[i] = r.pic], ret |-> r.ret]

\* PicAxiv.scale (mode 0); raised as in Pic_scale_image
PicAxiv_scale(a, offset, size, dk) ==
    IF a.axiv = <<>> THEN [obj |-> a, ret |-> FALSE, raised |-> FALSE]
    ELSE LET i == PicAxiv_offset_idx(a, offset) + 1
             r == Pic_scale_image(a.axiv[i], size, dk)
         IN  [obj |-> [a EXCEPT !.axiv[i] = r.pic], ret |-> r.ret,
              raised |-> r.raised]

\* the value None of an Optional[Pic], where a Pic is given by its index
None == -1

\* PicAxiv.ptr: the index of the Pic returned
PicAxiv_ptr(a, m) ==
    [obj |-> a,
     ret |-> IF a.axiv = <<>> THEN None ELSE PicAxiv_offset_idx(a, m)]

\* PicAxiv.mv
PicAxiv_mv(a, m) ==
    IF a.axiv = <<>> THEN [obj |-> a, ret |-> None]
    ELSE LET b == [a EXCEPT !.pic_idx = PicAxiv_offset_idx(a, m)]
         IN  [obj |-> b, ret |-> b.pic_idx]

\* PicAxiv.begin
PicAxiv_begin(a) ==
    IF a.axiv = <<>> THEN [obj |-> a, ret |-> None]
    ELSE [obj |-> [a EXCEPT !.pic_idx = 0], ret |-> 0]

\* PicAxiv.end
PicAxiv_end(a) ==
    IF a.axiv = <<>> THEN [obj |-> a, ret |-> None]
    ELSE [obj |-> [a EXCEPT !.pic_idx = Len(a.axiv) - 1],
          ret |-> Len(a.axiv) - 1]

\* PicAxiv.current_pic
PicAxiv_current_pic(a) ==
    [obj |-> a, ret |-> IF a.axiv = <<>> THEN None ELSE a.pic_idx]

----------------------------------------------------------------------------
(* SpecAxiv: the operations of one PicAxiv, called in any order *)

\* the offsets handed to offset_idx, ptr, mv, load and scale
AxivOffsets == (-MaxOffset)..MaxOffset

LastAxiv(op, arg, ret, idx) ==
    [op |-> op, arg |-> arg, ret |-> ret, idx |-> idx, pre |-> axiv]

AxivStep(a, l) ==
    /\ axiv' = a
    /\ last' = l
    /\ UNCHANGED <<pic, allaxiv, axiv_idx, label_size, disk, fs_events>>

InitAxiv ==
    /\ pic = Pic_init(<<"one", 1>>)
    /\ axiv \in {PicAxiv_init(1, path) : path \in Paths}
    /\ allaxiv = <<>>
    /\ axiv_idx = 0
    /\ label_size = 1
    /\ disk = InitialDisk
    /\ fs_events = 0
    /\ last = LastAxiv("init", 0, FALSE, None)

AxivShowable ==
    LET r == PicAxiv_showable(axiv, disk)
    IN  AxivStep(r.obj, LastAxiv("showable", 0, r.ret, None))

AxivOffsetIdx ==
    \E m \in AxivOffsets :
        AxivStep(axiv, LastAxiv("offset_idx", m, TRUE, PicAxiv_offset_idx(axiv, m)))

AxivPtr ==
    \E m \in AxivOffsets :
        LET r == PicAxiv_ptr(axiv, m)
        IN  AxivStep(r.obj, LastAxiv("ptr", m, r.ret # None, r.ret))

AxivMv ==
    \E m \in AxivOffsets :
        LET r == PicAxiv_mv(axiv, m)
        IN  AxivStep(r.obj, LastAxiv("mv", m, r.ret # None, r.ret))

AxivBegin ==
    LET r == PicAxiv_begin(axiv)
    IN  AxivStep(r.obj, LastAxiv("begin", 0, r.ret # None, r.ret))

AxivEnd ==
    LET r == PicAxiv_end(axiv)
    IN  AxivStep(r.obj, LastAxiv("end", 0, r.ret # None, r.ret))

AxivCurrentPic ==
    LET r == PicAxiv_current_pic(axiv)
    IN  AxivStep(r.obj, LastAxiv("current_pic", 0, r.ret # None, r.ret))

AxivLoad ==
    \E m \in {0, 1, -1} :
        LET r == PicAxiv_load(axiv, m, disk)
        IN  AxivStep(r.obj, LastAxiv("load", m, r.ret, None))

NextAxiv ==
    \/ AxivShowable
    \/ AxivOffsetIdx
    \/ AxivPtr
    \/ AxivMv
    \/ AxivBegin
    \/ AxivEnd
    \/ AxivCurrentPic
    \/ AxivLoad

SpecAxiv == InitAxiv /\ [][NextAxiv]_vars

----------------------------------------------------------------------------
(* Properties of one PicAxiv, checked under SpecAxiv *)

\* C10: on a non-empty collection the cursor stays within 0 <= cursor <
\* len(entries) through showable, mv, begin and end with any offsets, and
\* ptr (entry_at) and offset_idx never change the cursor.
C10_CursorInRange ==
    /\ axiv.axiv # <<>> => (0 <= axiv.pic_idx /\ axiv.pic_idx < Len(axiv.axiv))
    /\ last.op \in {"ptr", "offset_idx"} =>
           /\ axiv.pic_idx = last.pre.pic_idx
           /\ axiv.axiv # <<>> => (0 <= last.idx /\ last.idx < Len(axiv.axiv))

C10_Witness ==
    /\ last.op = "mv"
    /\ Len(axiv.axiv) >= 3
    /\ last.pre.pic_idx + last.arg < 0
    /\ axiv.pic_idx = Len(axiv.axiv) - 1

\* the extensions of the listings that are, lower-cased, .jpg .jpeg .png .bmp
ImageExts == {".jpg", ".jpeg", ".png", ".bmp", ".JPG", ".Png"}

\* C19: a collection built from a directory holds exactly one entry for each
\* name of the listing whose extension, lower-cased, is .jpg, .jpeg, .png or
\* .bmp, in listing order and nothing else (a.png, b.JPG, c.bmp, d.txt gives
\* 3 entries); one built from a regular file holds that file alone; one built
\* from a path that does not exist is empty and already recorded as checked
\* and not showable.
C19_DirectoryFilter ==
    LET e == FS(axiv.name)
        n == Len(axiv.axiv)
        place(k) == axiv.axiv[k].name[2]
    IN  CASE e.kind = "dir" ->
                /\ \A k \in 1..n :
                       /\ axiv.axiv[k].name[1] = axiv.name
                       /\ e.ls[place(k)].ext \in ImageExts
                /\ \A k \in 1..n : \A l \in 1..n : k < l => place(k) < place(l)
                /\ \A i \in 1..Len(e.ls) :
                       e.ls[i].ext \in ImageExts => \E k \in 1..n : place(k) = i
          [] e.kind = "file" ->
                n = 1 /\ axiv.axiv[1].name = <<axiv.name, 1>>
          [] OTHER ->
                axiv.axiv = <<>> /\ axiv.is_checked /\ ~axiv.is_showable

C19_Witness ==
    /\ last.op = "init"
    /\ axiv.name = "small"
    /\ Len(FS("small").ls) = 4
    /\ [k \in 1..Len(axiv.axiv) |-> axiv.axiv[k].name[2]] = <<1, 2, 3>>

\* what Pic.showable answers for the entry p: the recorded answer once it
\* is checked, whether its file decodes before
EntryShowable(p, dk) == IF p.is_checked THEN p.is_showable ELSE dk[p.name] = "ok"

\* C16: the first showable() call on a collection probes the entries in index
\* order up to the first showable one, puts the cursor on it and returns
\* true (the entries behind it are not probed), or returns false when no
\* entry is showable; every later call returns the cached result and changes
\* nothing: no entry is probed and the cursor does not move, whatever has
\* happened to the entries and the cursor in between.
C16_ShowableCached ==
    last.op = "showable" =>
        IF last.pre.is_checked
        THEN axiv = last.pre /\ last.ret = last.pre.is_showable
        ELSE LET old == last.pre.axiv
                 good == {i \in 1..Len(old) : EntryShowable(old[i], disk)}
             IN  /\ axiv.is_checked
                 /\ axiv.is_showable = last.ret
                 /\ last.ret = (good # {})
                 /\ IF good = {}
                    THEN /\ axiv.pic_idx = last.pre.pic_idx
                         /\ \A j \in 1..Len(old) : axiv.axiv[j].is_checked
                    ELSE LET m == CHOOSE i \in good : \A j \in good : i <= j
                         IN  /\ axiv.pic_idx = m - 1
                             /\ \A j \in 1..m : axiv.axiv[j].is_checked
                             /\ \A j \in (m + 1)..Len(old) : axiv.axiv[j] = old[j]

C16_Witness ==
    /\ last.op = "showable"
    /\ last.pre.is_checked
    /\ last.ret
    /\ axiv.name = "small"
    /\ axiv.pic_idx = 2
    /\ axiv.axiv[3].is_loaded

----------------------------------------------------------------------------
(* AhoView (main.py).  axiv_idx is 0-based as in the source; the archive   *)
(* at index i is allaxiv[i + 1].  An operation is a function of allaxiv    *)
(* (all), axiv_idx (idx), the label size and the file system; it gives the *)
(* two after the call, the value returned, the number of updatemc passes   *)
(* it ran and whether it ended in an exception (raised).                   *)

Abs(x) == IF x < 0 THEN -x ELSE x

\* lines 77-82 with the two wraps exchanged: a step past the last index
\* goes to the last index, a step before the first to the first
RECURSIVE AhoView_walk_bounce(_, _, _, _)
AhoView_walk_bounce(tmp_idx, n, k, steps) ==
    IF steps = 0 THEN tmp_idx
    ELSE LET t == tmp_idx + k
         IN  AhoView_walk_bounce(IF t >= n THEN n - 1 ELSE IF t < 0 THEN 0 ELSE t,
                                 n, k, steps - 1)

\* lines 77-82: steps single steps of k = 1 or -1, wrapping at both ends
RECURSIVE AhoView_walk(_, _, _, _)
AhoView_walk(tmp_idx, n, k, steps) ==
    IF steps = 0 THEN tmp_idx
    ELSE LET t == tmp_idx + k
         IN  AhoView_walk(IF t >= n THEN 0 ELSE IF t < 0 THEN n - 1 ELSE t,
                          n, k, steps - 1)

\* AhoView.offset_idx
AhoView_offset_idx(all, idx, offset) ==
    IF all = <<>> \/ Len(all) = 1 \/ offset = 0 THEN idx
    ELSE AhoView_walk(idx, Len(all), IF offset > 0 THEN 1 ELSE -1, Abs(offset))

\* AhoView.offset_both: the Pic returned, as <<archive index, pic index>>;
\* the pic index is None when None is returned
AhoView_offset_both(all, idx, axivm, picm) ==
    LET c == AhoView_offset_idx(all, idx, axivm)
    IN  <<c, PicAxiv_ptr(all[c + 1], picm).ret>>

\* AhoView.change_axiv without the test of lines 99-100
AhoView_change_axiv_eager(all, idx, offset) ==
    IF offset = 0 \/ all = <<>> THEN [axiv_idx |-> idx, ret |-> 1]
    ELSE [axiv_idx |-> AhoView_offset_idx(all, idx, offset), ret |-> 0]

\* AhoView.change_axiv
AhoView_change_axiv(all, idx, offset) ==
    IF offset = 0 \/ all = <<>> THEN [axiv_idx |-> idx, ret |-> 1]
    ELSE LET tmp_idx == AhoView_offset_idx(all, idx, offset)
         IN  IF tmp_idx = idx THEN [axiv_idx |-> idx, ret |-> 1]
             ELSE [axiv_idx |-> tmp_idx, ret |-> 0]

RECURSIVE SumScores(_)
SumScores(ps) ==
    IF ps = <<>> THEN 0 ELSE Head(ps).score + SumScores(Tail(ps))

\* line 160: the sum of the scores of all entries of all archives
RECURSIVE TotalScore(_)
TotalScore(all) ==
    IF all = <<>> THEN 0 ELSE SumScores(Head(all).axiv) + TotalScore(Tail(all))

\* line 164 with the score the Pic had before the pass as the numerator
NormalisePic_old(p, total_score, dk) ==
    Pic_score_set(Pic_score_set(p, 0, dk).pic,
                  (NormScale * p.score * Res) \div total_score - Res, dk).pic

\* line 164 on one Pic: the inner score_set(0) runs first and its result, not
\* the score the Pic had, is divided by the total.  In ticks, the value
\* 30 * (r / total) - 1 is (30 * r * Res) / total - Res.
NormalisePic(p, total_score, dk) ==
    LET r == Pic_score_set(p, 0, dk)
    IN  Pic_score_set(r.pic, (NormScale * r.ret * Res) \div total_score - Res,
                      dk).pic

\* AhoView.updatemc without lines 160-164
Normalise_skip(all, dk) == all

\* lines 160-164 of AhoView.updatemc
Normalise(all, dk) ==
    LET total_score == TotalScore(all)
    IN  IF total_score > 0
        THEN [c \in 1..Len(all) |->
                 [all[c] EXCEPT !.axiv =
                     [i \in 1..Len(all[c].axiv) |->
                         NormalisePic(all[c].axiv[i], total_score, dk)]]]
        ELSE all

\* lines 168-180: the offsets of the neighbourhood
PicOffsets == {0, 1, -1, FarOffset, -FarOffset}

\* lines 166-180: the set tmp_all, each Pic as <<archive index, pic index>>
Neighbourhood(all, idx) ==
    {x \in {AhoView_offset_both(all, idx, 0, o) : o \in PicOffsets} :
        x[2] # None}

\* lines 166-183 with a list for the set tmp_all: score_add(2) runs once
\* for every offset that reaches the Pic
HeatUp_per_offset(all, idx, dk) ==
    [c \in 1..Len(all) |->
        [all[c] EXCEPT !.axiv =
            [i \in 1..Len(all[c].axiv) |->
                LET k == Cardinality({o \in PicOffsets :
                             AhoView_offset_both(all, idx, 0, o) = <<c - 1, i - 1>>})
                IN  IF k > 0
                    THEN Pic_score_add(all[c].axiv[i], k * Heat * Res, dk).pic
                    ELSE all[c].axiv[i]]]]

\* lines 182-183
HeatUp(all, idx, dk) ==
    LET tmp_all == Neighbourhood(all, idx)
    IN  [c \in 1..Len(all) |->
            [all[c] EXCEPT !.axiv =
                [i \in 1..Len(all[c].axiv) |->
                    IF <<c - 1, i - 1>> \in tmp_all
                    THEN Pic_score_add(all[c].axiv[i], Heat * Res, dk).pic
                    ELSE all[c].axiv[i]]]]

\* AhoView.updatemc
AhoView_updatemc(all, idx, dk) == HeatUp(Normalise(all, dk), idx, dk)

\* AhoView.plot
AhoView_plot(all, idx, size, dk) ==
    IF all = <<>> THEN [allaxiv |-> all, passes |-> 0, raised |-> FALSE]
    ELSE LET current_pic == PicAxiv_current_pic(all[idx + 1]).ret
         IN  IF current_pic = None
             THEN [allaxiv |-> all, passes |-> 0, raised |-> FALSE]
             ELSE LET s == Pic_showable(all[idx + 1].axiv[current_pic + 1], dk)
                      sc == Pic_scale_image(s.pic, size, dk)
                      probed == [all EXCEPT ![idx + 1].axiv[current_pic + 1] = s.pic]
                      drawn == [all EXCEPT ![idx + 1].axiv[current_pic + 1] = sc.pic]
                  IN  IF ~s.ret
                      THEN [allaxiv |-> probed, passes |-> 0, raised |-> FALSE]
                      ELSE IF sc.raised
                      THEN [allaxiv |-> drawn, passes |-> 0, raised |-> TRUE]
                      ELSE [allaxiv |-> AhoView_updatemc(drawn, idx, dk),
                            passes |-> 1, raised |-> FALSE]

\* line 120 deleting the last archive whatever idx_to_close is
Del_last(all, i) == SubSeq(all, 1, Len(all) - 1)

\* del self.allaxiv[i] (i 0-based)
Del(all, i) == [k \in 1..(Len(all) - 1) |-> IF k <= i THEN all[k] ELSE all[k + 1]]

\* AhoView.close_axiv without the reset of lines 121-122
AhoView_close_axiv_stale(all, idx, offset, size, dk) ==
    IF all = <<>>
    THEN [allaxiv |-> all, axiv_idx |-> idx, ret |-> 0, passes |-> 0,
          raised |-> FALSE]
    ELSE IF Len(all) > 1
    THEN [allaxiv |-> Del(all, AhoView_offset_idx(all, idx, offset)),
          axiv_idx |-> idx, ret |-> 0, passes |-> 0, raised |-> FALSE]
    ELSE [allaxiv |-> <<>>, axiv_idx |-> idx, ret |-> 0, passes |-> 0,
          raised |-> FALSE]

\* AhoView.close_axiv
AhoView_close_axiv(all, idx, offset, size, dk) ==
    IF all = <<>>
    THEN [allaxiv |-> all, axiv_idx |-> idx, ret |-> 0, passes |-> 0,
          raised |-> FALSE]
    ELSE IF Len(all) > 1
    THEN LET idx_to_close == AhoView_offset_idx(all, idx, offset)
             rest == Del(all, idx_to_close)
             new_idx == IF idx >= Len(rest) THEN 0 ELSE idx
             p == AhoView_plot(rest, new_idx, size, dk)
         IN  [allaxiv |-> p.allaxiv, axiv_idx |-> new_idx, ret |-> 0,
              passes |-> p.passes, raised |-> p.raised]
    ELSE [allaxiv |-> <<>>, axiv_idx |-> idx, ret |-> 0, passes |-> 0,
          raised |-> FALSE]

\* the identity of a new PicAxiv object: one no live object has
NewId(all) ==
    CHOOSE n \in 1..(Len(all) + 1) :
        /\ \A c \in 1..Len(all) : all[c].id # n
        /\ \A m \in 1..(n - 1) : \E c \in 1..Len(all) : all[c].id = m

\* AhoView.open_axiv without the test of line 145: the new PicAxiv is
\* inserted whether showable or not
AhoView_open_axiv_any(all, idx, directory, size, dk) ==
    IF directory # ""
    THEN LET s == PicAxiv_showable(PicAxiv_init(NewId(all), directory), dk)
             p == AhoView_plot(<<s.obj>> \o all, 0, size, dk)
         IN  [allaxiv |-> p.allaxiv, axiv_idx |-> 0, ret |-> 0,
              passes |-> p.passes, raised |-> p.raised]
    ELSE [allaxiv |-> all, axiv_idx |-> idx, ret |-> 1, passes |-> 0,
          raised |-> FALSE]

\* AhoView.open_axiv; directory is the path after the dialog of line 141
\* ("" when there is none)
AhoView_open_axiv(all, idx, directory, size, dk) ==
    IF directory # ""
    THEN LET s == PicAxiv_showable(PicAxiv_init(NewId(all), directory), dk)
         IN  IF s.ret
             THEN LET p == AhoView_plot(<<s.obj>> \o all, 0, size, dk)
                  IN  [allaxiv |-> p.allaxiv, axiv_idx |-> 0, ret |-> 0,
                       passes |-> p.passes, raised |-> p.raised]
             ELSE [allaxiv |-> all, axiv_idx |-> idx, ret |-> 0, passes |-> 0,
                   raised |-> FALSE]
    ELSE [allaxiv |-> all, axiv_idx |-> idx, ret |-> 1, passes |-> 0,
          raised |-> FALSE]

\* the keys keyPressEvent tells apart ("A" stands for every other key)
Keys == {"Left", "Right", "PageUp", "PageDown", "End", "Home", "Up", "Down",
         "Escape", "G", "A"}

\* lines 261-272: what a key does to the active archive
KeyMove(a, key) ==
    CASE key = "Left" -> PicAxiv_mv(a, 1).obj
      [] key = "Right" -> PicAxiv_mv(a, -1).obj
      [] key = "PageUp" -> PicAxiv_mv(a, -FarOffset).obj
      [] key = "PageDown" -> PicAxiv_mv(a, FarOffset).obj
      [] key = "End" -> PicAxiv_end(a).obj
      [] key = "Home" -> PicAxiv_begin(a).obj
      [] OTHER -> a

\* lines 287-288 without the comparison: plot after every key or button
PlotIfMoved_always(all, idx, at, before, size, dk) ==
    LET p == AhoView_plot(all, idx, size, dk)
    IN  [allaxiv |-> p.allaxiv, axiv_idx |-> idx, passes |-> p.passes,
         raised |-> p.raised]

\* lines 287-288 and 311-312: plot if the archive held in the local variable
\* axiv (at index at) has another current Pic than before
PlotIfMoved(all, idx, at, before, size, dk) ==
    IF before # PicAxiv_current_pic(all[at + 1]).ret
    THEN LET p == AhoView_plot(all, idx, size, dk)
         IN  [allaxiv |-> p.allaxiv, axiv_idx |-> idx, passes |-> p.passes,
              raised |-> p.raised]
    ELSE [allaxiv |-> all, axiv_idx |-> idx, passes |-> 0, raised |-> FALSE]

\* AhoView.keyPressEvent
AhoView_keyPressEvent(all, idx, key, size, dk) ==
    IF all = <<>> \/ key = "A"
    THEN [allaxiv |-> all, axiv_idx |-> idx, passes |-> 0, raised |-> FALSE]
    ELSE LET before == PicAxiv_current_pic(all[idx + 1]).ret
         IN  IF key \in {"Up", "Down"}
             THEN LET ch == AhoView_change_axiv(all, idx,
                                                IF key = "Up" THEN 1 ELSE -1)
                      p == AhoView_plot(all, ch.axiv_idx, size, dk)
                  IN  IF ch.ret = 0
                      THEN IF p.raised
                           THEN [allaxiv |-> p.allaxiv, axiv_idx |-> ch.axiv_idx,
                                 passes |-> p.passes, raised |-> TRUE]
                           ELSE LET q == PlotIfMoved(p.allaxiv, ch.axiv_idx, idx,
                                                     before, size, dk)
                                IN  [q EXCEPT !.passes = p.passes + q.passes]
                      ELSE PlotIfMoved(all, idx, idx, before, size, dk)
             ELSE PlotIfMoved([all EXCEPT ![idx + 1] = KeyMove(all[idx + 1], key)],
                              idx, idx, before, size, dk)

\* AhoView.mouseReleaseEvent ("Middle" stands for every other button)
Buttons == {"LeftButton", "RightButton", "Middle"}

AhoView_mouseReleaseEvent(all, idx, button, size, dk) ==
    IF all = <<>> \/ button = "Middle"
    THEN [allaxiv |-> all, axiv_idx |-> idx, passes |-> 0, raised |-> FALSE]
    ELSE LET before == PicAxiv_current_pic(all[idx + 1]).ret
             moved == PicAxiv_mv(all[idx + 1],
                                 IF button = "LeftButton" THEN 1 ELSE -1).obj
         IN  PlotIfMoved([all EXCEPT ![idx + 1] = moved], idx, idx, before,
                         size, dk)

----------------------------------------------------------------------------
(* Spec: the viewer driven by its event handlers, one action per handler,  *)
(* from the empty window, while image files may change on disk.            *)

\* the paths the user opens, and what the dialog of line 141 may answer
\* ("": cancelled)
OpenInputs == Paths \cup {""}

\* the files that change behind the program's back
Volatile == {<<"big", 1>>}

\* the current Pic, as <<identity of the active archive, pic index>>
Cur(all, idx) ==
    IF all = <<>> THEN <<0, None>>
    ELSE <<all[idx + 1].id, PicAxiv_current_pic(all[idx + 1]).ret>>

HasCur(all, idx) == all # <<>> /\ Cur(all, idx)[2] # None

\* the current Pic object
CurPic(all, idx) == all[idx + 1].axiv[all[idx + 1].pic_idx + 1]

\* the Pic that is current in (all2, idx2), as it was in all before the
\* command: a Pic of an archive constructed by the command was fresh
Target(all, all2, idx2) ==
    IF ~HasCur(all2, idx2) THEN Pic_init(<<"missing", 1>>)
    ELSE LET a == all2[idx2 + 1]
         IN  IF \E c \in 1..Len(all) : all[c].id = a.id
             THEN LET c == CHOOSE c \in 1..Len(all) : all[c].id = a.id
                  IN  all[c].axiv[a.pic_idx + 1]
             ELSE Pic_init(a.axiv[a.pic_idx + 1].name)

\* a Pic that plot can show: it is loaded, or it is not known as not showable
\* and its file decodes
Renderable(p, dk) ==
    p.is_loaded \/ (~(p.is_checked /\ ~p.is_showable) /\ dk[p.name] = "ok")

\* what the last command was: a navigation command ("nav": open, close,
\* key or mouse button) or a resize, whether it made another Pic current
\* (changed), whether the Pic current after it could be shown as it was
\* before the command (renderable), the number of updatemc passes run and
\* whether the handler ended in an exception
LastUi(op, r) ==
    [op |-> op, passes |-> r.passes, raised |-> r.raised,
     changed |-> /\ HasCur(r.allaxiv, r.axiv_idx)
                 /\ Cur(allaxiv, axiv_idx) # Cur(r.allaxiv, r.axiv_idx),
     renderable |-> /\ HasCur(r.allaxiv, r.axiv_idx)
                    /\ Renderable(Target(allaxiv, r.allaxiv, r.axiv_idx), disk)]

UiStep(op, r) ==
    /\ allaxiv' = r.allaxiv
    /\ axiv_idx' = r.axiv_idx
    /\ last' = LastUi(op, r)
    /\ UNCHANGED <<pic, axiv, disk, fs_events>>

InitEmpty ==
    /\ pic = Pic_init(<<"one", 1>>)
    /\ axiv = <<>>
    /\ allaxiv = <<>>
    /\ axiv_idx = 0
    /\ label_size = 1
    /\ disk = InitialDisk
    /\ fs_events = 0

Init ==
    /\ InitEmpty
    /\ last = [op |-> "init", passes |-> 0, raised |-> FALSE,
               changed |-> FALSE, renderable |-> FALSE]

\* open_act and a drop of one file: open_axiv(directory).  No path is open
\* twice at a time.
OpenAxiv ==
    \E directory \in OpenInputs :
        /\ Len(allaxiv) < MaxAxiv
        /\ \A c \in 1..Len(allaxiv) : allaxiv[c].name # directory
        /\ \E r \in {AhoView_open_axiv(allaxiv, axiv_idx, directory,
                                        label_size, disk)} :
               UiStep("nav", r)
        /\ UNCHANGED label_size

\* close_act: close_axiv(0)
CloseAct ==
    /\ \E r \in {AhoView_close_axiv(allaxiv, axiv_idx, 0, label_size, disk)} :
           UiStep("nav", r)
    /\ UNCHANGED label_size

KeyPressEvent ==
    \E key \in Keys :
        /\ \E r \in {AhoView_keyPressEvent(allaxiv, axiv_idx, key, label_size,
                                            disk)} :
               UiStep("nav", r)
        /\ UNCHANGED label_size

MouseReleaseEvent ==
    \E button \in Buttons :
        /\ \E r \in {AhoView_mouseReleaseEvent(allaxiv, axiv_idx, button,
                                                label_size, disk)} :
               UiStep("nav", r)
        /\ UNCHANGED label_size

\* resizeEvent: the label has its new size when plot runs
ResizeEvent ==
    \E size \in LabelSizes \ {label_size} :
        /\ label_size' = size
        /\ \E p \in {AhoView_plot(allaxiv, axiv_idx, size, disk)} :
               UiStep("resize", [allaxiv |-> p.allaxiv, axiv_idx |-> axiv_idx,
                                 passes |-> p.passes, raised |-> p.raised])

\* an image file is removed, replaced or restored from outside
DiskChange ==
    /\ \E f \in Volatile : \E d \in DiskStates \ {disk[f]} :
           disk' = [disk EXCEPT ![f] = d]
    /\ UNCHANGED <<pic, axiv, allaxiv, axiv_idx, label_size, fs_events, last>>

Next ==
    \/ OpenAxiv
    \/ CloseAct
    \/ KeyPressEvent
    \/ MouseReleaseEvent
    \/ ResizeEvent
    \/ DiskChange

Spec == Init /\ [][Next]_vars

----------------------------------------------------------------------------
(* Properties of the viewer driven by its event handlers, checked under    *)
(* Spec                                                                    *)

\* the loaded Pics, each as <<archive index, pic index>>
Loaded(all) ==
    UNION {{<<c - 1, i - 1>> : i \in {j \in 1..Len(all[c].axiv) :
                                         all[c].axiv[j].is_loaded}} :
           c \in 1..Len(all)}

\* C7 as stated: after every command at most 5 entries are loaded, over all
\* open collections, and every loaded entry lies in the neighbourhood
\* {-1, 0, +1, +10, -10} of the active collection's cursor.
C7_LoadedInNeighbourhood ==
    /\ Cardinality(Loaded(allaxiv)) <= Cardinality(PicOffsets)
    /\ allaxiv # <<>> => Loaded(allaxiv) \subseteq Neighbourhood(allaxiv, axiv_idx)

\* C7 as amended: after every command at most 5 entries are loaded, over all
\* open collections, and after a command that ran a rebalance pass every
\* loaded entry lies in the neighbourhood of the active collection's cursor
\* (a command that moves the cursor onto an entry that cannot be shown runs
\* no pass and leaves the entries around the old cursor loaded).
C7_ResidentBound ==
    /\ Cardinality(Loaded(allaxiv)) <= Cardinality(PicOffsets)
    /\ (last.passes >= 1 /\ allaxiv # <<>>) =>
           Loaded(allaxiv) \subseteq Neighbourhood(allaxiv, axiv_idx)

C7_Witness ==
    /\ last.passes = 1
    /\ Len(allaxiv) = 2
    /\ Cardinality(Loaded(allaxiv)) = Cardinality(PicOffsets)
    /\ Len(allaxiv[axiv_idx + 1].axiv) > Cardinality(PicOffsets)

\* C8 as stated: a navigation command that changes which entry is current
\* runs exactly one rebalance pass, and one that leaves the current entry
\* unchanged runs none.
C8_OnePassPerChange ==
    last.op = "nav" => last.passes = (IF last.changed THEN 1 ELSE 0)

\* C8 as amended: a navigation command that changes which entry is current
\* runs exactly one rebalance pass when the new current entry can be shown
\* (it is loaded, or it is not known as not showable and its file decodes)
\* and none when it cannot; one that leaves the current entry unchanged runs
\* none.
C8_OnePassPerShownChange ==
    last.op = "nav" =>
        last.passes = (IF last.changed /\ last.renderable THEN 1 ELSE 0)

C8_Witness ==
    /\ last.op = "nav"
    /\ last.changed
    /\ last.renderable
    /\ last.passes = 1
    /\ Len(allaxiv) = 2
    /\ axiv_idx = 1

----------------------------------------------------------------------------
(* SpecNav: open_axiv, close_axiv and change_axiv called with any offsets  *)

NavOffsets == (-MaxNavOffset)..MaxNavOffset

Ids(all) == [c \in 1..Len(all) |-> all[c].id]

LastNav(op, offset, path, ret) ==
    [op |-> op, offset |-> offset, path |-> path, ret |-> ret,
     pre_idx |-> axiv_idx, pre_ids |-> Ids(allaxiv)]

NavStep(r, l) ==
    /\ allaxiv' = r.allaxiv
    /\ axiv_idx' = r.axiv_idx
    /\ last' = l
    /\ UNCHANGED <<pic, axiv, label_size, disk, fs_events>>

InitNav ==
    /\ InitEmpty
    /\ last = LastNav("init", 0, "", 0)

NavOpen ==
    \E directory \in OpenInputs :
        /\ Len(allaxiv) < MaxNavAxiv
        /\ \E r \in {AhoView_open_axiv(allaxiv, axiv_idx, directory,
                                        label_size, disk)} :
               NavStep(r, LastNav("open_axiv", 0, directory, r.ret))

NavClose ==
    \E offset \in NavOffsets :
        \E r \in {AhoView_close_axiv(allaxiv, axiv_idx, offset, label_size,
                                     disk)} :
            NavStep(r, LastNav("close_axiv", offset, "", r.ret))

NavChange ==
    \E offset \in NavOffsets :
        \E r \in {AhoView_change_axiv(allaxiv, axiv_idx, offset)} :
            NavStep([allaxiv |-> allaxiv, axiv_idx |-> r.axiv_idx],
                    LastNav("change_axiv", offset, "", r.ret))

NextNav ==
    \/ NavOpen
    \/ NavClose
    \/ NavChange

SpecNav == InitNav /\ [][NextNav]_vars

\* C9: after any sequence of open, close_active(offset) and
\* switch_active(offset), whenever the set of collections is not empty,
\* 0 <= active < len(collections).
C9_ActiveInRange ==
    allaxiv # <<>> => (0 <= axiv_idx /\ axiv_idx < Len(allaxiv))

C9_Witness ==
    /\ last.op = "close_axiv"
    /\ Len(last.pre_ids) = 3
    /\ last.pre_idx = 2
    /\ last.offset # 0
    /\ Len(allaxiv) = 2
    /\ axiv_idx = 0

\* C12: close_axiv(offset) on n >= 2 collections removes exactly the one at
\* index (axiv_idx + offset) mod n and leaves the other n - 1 in their
\* order; on one collection it leaves the set empty; on the empty set it
\* changes nothing.
C12_CloseRemovesTarget ==
    last.op = "close_axiv" =>
        LET n == Len(last.pre_ids)
        IN  IF n >= 2
            THEN LET t == (last.pre_idx + last.offset) % n
                 IN  /\ Len(allaxiv) = n - 1
                     /\ \A c \in 1..(n - 1) :
                            allaxiv[c].id = last.pre_ids[IF c <= t THEN c ELSE c + 1]
            ELSE IF n = 1 THEN allaxiv = <<>>
            ELSE allaxiv = <<>> /\ axiv_idx = last.pre_idx

C12_Witness ==
    /\ last.op = "close_axiv"
    /\ Len(last.pre_ids) = 3
    /\ last.pre_idx = 0
    /\ last.offset = -2
    /\ Ids(allaxiv) = <<last.pre_ids[1], last.pre_ids[3]>>

\* C13: change_axiv(offset) returns 0 ("changed") exactly when axiv_idx after
\* the call differs from axiv_idx before it; when offset is 0, the set is
\* empty or the wrapped target is the active index, it returns 1 and leaves
\* axiv_idx as it was; the list of collections is never touched.
C13_ChangedIffMoved ==
    [][last'.op = "change_axiv" =>
          /\ allaxiv' = allaxiv
          /\ (last'.ret = 0) <=> (axiv_idx' # axiv_idx)
          /\ (\/ last'.offset = 0
              \/ allaxiv = <<>>
              \/ (allaxiv # <<>> /\
                  (axiv_idx + last'.offset) % Len(allaxiv) = axiv_idx)) =>
                 (last'.ret = 1 /\ axiv_idx' = axiv_idx)]_vars

C13_Witness ==
    /\ last.op = "change_axiv"
    /\ Len(allaxiv) = 3
    /\ last.offset = 3
    /\ last.ret = 1
    /\ axiv_idx = 2

\* the path holds an image that decodes: a regular file that decodes, or a
\* directory with a supported image that decodes
PathShowable(path, dk) ==
    /\ path # ""
    /\ LET e == FS(path)
       IN  \/ e.kind = "file" /\ dk[<<path, 1>>] = "ok"
           \/ /\ e.kind = "dir"
              /\ \E i \in 1..Len(e.ls) :
                     e.ls[i].ext \in ImageExts /\ dk[<<path, i>>] = "ok"

\* C14: open_axiv(path) inserts the new collection exactly when it is
\* showable: it becomes index 0 and the active one, with the collections
\* open before kept behind it in the same order; a collection that is not
\* showable (nonexistent path, directory without supported images, no entry
\* that decodes) leaves the list and axiv_idx as they were.
C14_OpenInsertsShowable ==
    [][last'.op = "open_axiv" =>
          IF PathShowable(last'.path, disk)
          THEN /\ Len(allaxiv') = Len(allaxiv) + 1
               /\ allaxiv'[1].name = last'.path
               /\ axiv_idx' = 0
               /\ \A c \in 1..Len(allaxiv) :
                      /\ allaxiv'[c + 1].id = allaxiv[c].id
                      /\ allaxiv'[c + 1].name = allaxiv[c].name
                      /\ allaxiv'[1].id # allaxiv[c].id
          ELSE allaxiv' = allaxiv /\ axiv_idx' = axiv_idx]_vars

C14_Witness ==
    /\ last.op = "open_axiv"
    /\ last.path = "small"
    /\ last.pre_idx = 1
    /\ Len(allaxiv) = 3
    /\ allaxiv[1].name = "small"
    /\ axiv_idx = 0

\* C15: open_axiv returns 0 when a collection was inserted into the set and
\* 1 otherwise, for every path.
C15_ReturnsOpened ==
    last.op = "open_axiv" =>
        ((last.ret = 0) <=> (Len(allaxiv) = Len(last.pre_ids) + 1))

----------------------------------------------------------------------------
(* SpecMc: updatemc run on a set whose entries were given scores through   *)
(* score_set                                                               *)

\* the scores handed to score_set, in ticks (0, 10 and 20)
McScores == {0, FarOffset * Res, 2 * FarOffset * Res}

Scores(all) ==
    [c \in 1..Len(all) |-> [i \in 1..Len(all[c].axiv) |-> all[c].axiv[i].score]]

LastMc(op, all, norm) ==
    [op |-> op, total |-> TotalScore(all), pre |-> Scores(all),
     norm |-> Scores(norm)]

\* the window after open_axiv("one") and open_axiv("small")
InitMc ==
    /\ pic = Pic_init(<<"one", 1>>)
    /\ axiv = <<>>
    /\ label_size = 1
    /\ disk = InitialDisk
    /\ fs_events = 0
    /\ \E a \in {AhoView_open_axiv(<<>>, 0, "one", 1, InitialDisk)} :
       \E b \in {AhoView_open_axiv(a.allaxiv, a.axiv_idx, "small", 1,
                                   InitialDisk)} :
           /\ allaxiv = b.allaxiv
           /\ axiv_idx = b.axiv_idx
           /\ last = LastMc("init", b.allaxiv, b.allaxiv)

McScoreSet ==
    \E c \in 1..Len(allaxiv) : \E i \in 1..Len(allaxiv[c].axiv) :
    \E n \in McScores :
        /\ allaxiv' = [allaxiv EXCEPT ![c].axiv[i] =
                           Pic_score_set(allaxiv[c].axiv[i], n, disk).pic]
        /\ last' = LastMc("score_set", allaxiv', allaxiv')
        /\ UNCHANGED <<pic, axiv, axiv_idx, label_size, disk, fs_events>>

McUpdatemc ==
    /\ allaxiv' = AhoView_updatemc(allaxiv, axiv_idx, disk)
    /\ last' = LastMc("updatemc", allaxiv, Normalise(allaxiv, disk))
    /\ UNCHANGED <<pic, axiv, axiv_idx, label_size, disk, fs_events>>

NextMc ==
    \/ McScoreSet
    \/ McUpdatemc

SpecMc == InitMc /\ [][NextMc]_vars

\* C1: when the total of all scores is > 0, the normalisation step of
\* updatemc leaves every entry with the score max(0, 30 * old / total - 1),
\* old being its score before the pass and total the sum before the pass
\* (in ticks: score * total = 30 * old * Res - Res * total when that is > 0).
C1_Normalised ==
    (last.op = "updatemc" /\ last.total > 0) =>
        \A c \in 1..Len(last.pre) : \A i \in 1..Len(last.pre[c]) :
            LET v == NormScale * last.pre[c][i] * Res - Res * last.total
            IN  IF v <= 0 THEN last.norm[c][i] = 0
                ELSE last.norm[c][i] * last.total = v

----------------------------------------------------------------------------
(* SpecWrap: the index arithmetic of PicAxiv.offset_idx, PicAxiv.mv and    *)
(* AhoView.offset_idx, on collections of every length up to MaxWrapLen     *)
(* with the cursor on every entry, and windows of up to MaxWrapAxiv        *)
(* collections with every one of them active.                              *)

WrapOffsets == (-MaxWrapOffset)..MaxWrapOffset

\* a PicAxiv built from a directory of n image files (lines 39-40), found
\* showable, with the cursor moved to c
Collection(id, n, c) ==
    [id |-> id, name |-> "dir", is_checked |-> TRUE, is_showable |-> TRUE,
     axiv |-> [k \in 1..n |-> Pic_init(<<"dir", k>>)], pic_idx |-> c]

\* a window with m collections open
Window(m) == [i \in 1..m |-> Collection(i, 1, 0)]

\* the last call: its offset, the index it returned and the index (cursor
\* or active index) it started from; back tells that it is an mv(-k) made
\* right after an mv(k), and origin is then the cursor before that mv(k)
LastWrap(op, arg, ret, pre) ==
    LET back == op = "mv" /\ last.op = "mv" /\ arg = -last.arg
    IN  [op |-> op, arg |-> arg, ret |-> ret, pre |-> pre, back |-> back,
         origin |-> IF back THEN last.pre ELSE None]

InitWrap ==
    /\ pic = Pic_init(<<"one", 1>>)
    /\ \E n \in 1..MaxWrapLen : \E c \in 0..(n - 1) : axiv = Collection(1, n, c)
    /\ \E m \in 1..MaxWrapAxiv :
           /\ allaxiv = Window(m)
           /\ axiv_idx \in 0..(m - 1)
    /\ label_size = 1
    /\ disk = InitialDisk
    /\ fs_events = 0
    /\ last = [op |-> "init", arg |-> 0, ret |-> 0, pre |-> 0, back |-> FALSE,
               origin |-> None]

WrapOffsetIdx ==
    \E k \in WrapOffsets :
        /\ last' = LastWrap("offset_idx", k, PicAxiv_offset_idx(axiv, k),
                            axiv.pic_idx)
        /\ UNCHANGED <<pic, axiv, allaxiv, axiv_idx, label_size, disk, fs_events>>

WrapMv ==
    \E k \in WrapOffsets :
        LET r == PicAxiv_mv(axiv, k)
        IN  /\ axiv' = r.obj
            /\ last' = LastWrap("mv", k, r.ret, axiv.pic_idx)
            /\ UNCHANGED <<pic, allaxiv, axiv_idx, label_size, disk, fs_events>>

WrapAxivOffsetIdx ==
    \E k \in WrapOffsets :
        /\ last' = LastWrap("AhoView.offset_idx", k,
                            AhoView_offset_idx(allaxiv, axiv_idx, k), axiv_idx)
        /\ UNCHANGED <<pic, axiv, allaxiv, axiv_idx, label_size, disk, fs_events>>

WrapChangeAxiv ==
    \E k \in WrapOffsets :
        LET r == AhoView_change_axiv(allaxiv, axiv_idx, k)
        IN  /\ axiv_idx' = r.axiv_idx
            /\ last' = LastWrap("change_axiv", k, r.axiv_idx, axiv_idx)
            /\ UNCHANGED <<pic, axiv, allaxiv, label_size, disk, fs_events>>

NextWrap ==
    \/ WrapOffsetIdx
    \/ WrapMv
    \/ WrapAxivOffsetIdx
    \/ WrapChangeAxiv

SpecWrap == InitWrap /\ [][NextWrap]_vars

\* C11: on a non-empty collection, from every cursor and for every offset k,
\* mv(k) followed by mv(-k) brings the cursor back to where it was before
\* the first call (also when the collection is no longer than the offset:
\* lengths 1, 2 and 3 are among those checked).
C11_RoundTrip ==
    last.back => axiv.pic_idx = last.origin

C11_Witness ==
    /\ last.back
    /\ Len(axiv.axiv) = 2
    /\ last.arg = -3
    /\ last.pre = 1
    /\ axiv.pic_idx = 0

\* C20: for every length n >= 1, every cursor c in 0..n-1 and every offset k,
\* PicAxiv.offset_idx(k) is (c + k) mod n with a non-negative remainder, and
\* AhoView.offset_idx(k) is (axiv_idx + k) mod len(allaxiv).
C20_WrapIsModulo ==
    /\ last.op = "offset_idx" =>
           last.ret = (axiv.pic_idx + last.arg) % Len(axiv.axiv)
    /\ last.op = "AhoView.offset_idx" =>
           last.ret = (axiv_idx + last.arg) % Len(allaxiv)

C20_Witness ==
    /\ last.op = "AhoView.offset_idx"
    /\ Len(allaxiv) = 3
    /\ axiv_idx = 1
    /\ last.arg = -5
    /\ last.ret = 2

----------------------------------------------------------------------------
(* SpecHeat: updatemc called on windows of two collections, with the       *)
(* cursor moved and the active collection changed between the calls.       *)
(* Scores change through updatemc alone, its lines 164 and 183 being the   *)
(* only callers of score_set and score_add.                                *)

\* the paths opened, all showable
HeatPaths == {"one", "small", "big"}

\* the offsets of the keys and buttons (main.py:261-268)
HeatOffsets == {1, -1, FarOffset, -FarOffset}

\* the windows after open_axiv on two different paths
InitHeat ==
    /\ pic = Pic_init(<<"one", 1>>)
    /\ axiv = <<>>
    /\ label_size = 1
    /\ disk = InitialDisk
    /\ fs_events = 0
    /\ \E p1 \in HeatPaths : \E p2 \in HeatPaths \ {p1} :
       \E a \in {AhoView_open_axiv(<<>>, 0, p1, 1, InitialDisk)} :
       \E b \in {AhoView_open_axiv(a.allaxiv, a.axiv_idx, p2, 1, InitialDisk)} :
           /\ allaxiv = b.allaxiv
           /\ axiv_idx = b.axiv_idx
           /\ last = LastMc("init", b.allaxiv, b.allaxiv)

HeatMv ==
    \E m \in HeatOffsets :
        /\ allaxiv' = [allaxiv EXCEPT ![axiv_idx + 1] =
                           PicAxiv_mv(allaxiv[axiv_idx + 1], m).obj]
        /\ last' = LastMc("mv", allaxiv', allaxiv')
        /\ UNCHANGED <<pic, axiv, axiv_idx, label_size, disk, fs_events>>

HeatChangeAxiv ==
    \E offset \in {1, -1} :
        /\ axiv_idx' = AhoView_change_axiv(allaxiv, axiv_idx, offset).axiv_idx
        /\ last' = LastMc("change_axiv", allaxiv, allaxiv)
        /\ UNCHANGED <<pic, axiv, allaxiv, label_size, disk, fs_events>>

NextHeat ==
    \/ HeatMv
    \/ HeatChangeAxiv
    \/ McUpdatemc

SpecHeat == InitHeat /\ [][NextHeat]_vars

\* the entries of the active collection that an offset of -1, 0, +1, +10 or
\* -10 from its cursor reaches, as <<archive index, pic index>>
Near(all, idx) ==
    LET a == all[idx + 1]
        n == Len(a.axiv)
    IN  {<<idx, (a.pic_idx + o) % n>> : o \in {-1, 0, 1, 10, -10}}

\* C21: in the neighbourhood step of updatemc every entry that an offset of
\* -1, 0, +1, +10 or -10 from the active collection's cursor reaches gains
\* exactly 2, once, however many of the offsets reach it (the one entry of a
\* single-entry collection gains 2), and no other entry of the active
\* collection and no entry of another collection gains anything.
C21_HeatOncePerEntry ==
    last.op = "updatemc" =>
        \A c \in 1..Len(allaxiv) : \A i \in 1..Len(allaxiv[c].axiv) :
            allaxiv[c].axiv[i].score - last.norm[c][i] =
                (IF <<c - 1, i - 1>> \in Near(allaxiv, axiv_idx)
                 THEN 2 * Res ELSE 0)

C21_Witness ==
    /\ last.op = "updatemc"
    /\ Len(allaxiv[axiv_idx + 1].axiv) = 1
    /\ allaxiv[axiv_idx + 1].axiv[1].score = 2 * Res
    /\ \E c \in 1..Len(allaxiv) :
           /\ Len(allaxiv[c].axiv) = 6
           /\ \A i \in 1..6 : allaxiv[c].axiv[i].score = 0

\* C23: after every complete updatemc pass every entry of every open
\* collection has score exactly 0 or exactly 2, and the entries with score 2
\* are exactly the entries that an offset of -1, 0, +1, +10 or -10 from the
\* active collection's cursor reaches; an entry heated by the pass before
\* keeps nothing of it.
C23_ScoresZeroOrTwo ==
    last.op = "updatemc" =>
        \A c \in 1..Len(allaxiv) : \A i \in 1..Len(allaxiv[c].axiv) :
            LET score == allaxiv[c].axiv[i].score
            IN  /\ score \in {0, 2 * Res}
                /\ (score = 2 * Res) <=>
                       (<<c - 1, i - 1>> \in Near(allaxiv, axiv_idx))

C23_Witness ==
    /\ last.op = "updatemc"
    /\ last.total > 0
    /\ Len(allaxiv[axiv_idx + 1].axiv) = 6
    /\ \E i \in 1..6 :
           /\ last.pre[axiv_idx + 1][i] = 2 * Res
           /\ allaxiv[axiv_idx + 1].axiv[i].score = 2 * Res
    /\ \E i \in 1..6 :
           /\ last.pre[axiv_idx + 1][i] = 2 * Res
           /\ allaxiv[axiv_idx + 1].axiv[i].score = 0

====
